---- MODULE Spec2Model ----
(***************************************************************************)
(* Output parsers of the "Managing Outputs with Output Parsers" notebook:  *)
(* the three Suggestions schemas with their validators, the direct         *)
(* parser.parse calls, and the two repairing parsers (OutputFixingParser,  *)
(* RetryWithErrorOutputParser) wrapped around the plain schema.            *)
(*                                                                         *)
(* A Python str is a sequence of one-character strings; a List[str] is a   *)
(* sequence of such sequences.  A raw completion is abstracted to what     *)
(* json.loads makes of it: undecodable, or an object with a value (or no   *)
(* value) under each of the keys words, reasons and reasoning.             *)
(***************************************************************************)
EXTENDS Integers, Sequences, FiniteSets, TLC

VARIABLES
    called,      \* validator call: the validator function called
    arg,         \* validator call: the list passed as `field`
    field,       \* validator call: the list object after the call
    vout,        \* validator call: what the call returned or raised
    output,      \* parser.parse(output): the raw completion
    parser,      \* parser.parse(output): the Suggestions class of the parser
    parsed,      \* parser.parse(output): what the call returned or raised
    pc,          \* repairing parser: position in the call
    strategy,    \* repairing parser: "A" OutputFixingParser, "B" RetryWithError
    completion,  \* repairing parser: the raw completion handed in
    request,     \* repairing parser: what the retry chain sends to the model
    response,    \* repairing parser: the model's new completion
    result,      \* repairing parser: outcome of the latest parse or model call
    modelCalls,  \* repairing parser: calls made to the model
    parseCalls,  \* repairing parser: calls made to the wrapped parser
    cell,        \* notebook run: the cell to execute next
    keyPresent,  \* notebook run: OPENAI_API_KEY is in the environment
    nbError,     \* notebook run: the exception that stopped the run
    promptsBuilt, \* notebook run: prompt templates built
    nbModelCalls, \* notebook run: calls made to the model
    nbParses,    \* notebook run: calls of parser.parse
    nbOutput,    \* notebook run: the completion chain.run returned
    cpc,         \* ConcatenateChain._call: position in the call
    inputs,      \* ConcatenateChain._call: the inputs mapping
    in1,         \* ConcatenateChain._call: inputs as chain_1.run received them
    in2,         \* ConcatenateChain._call: inputs as chain_2.run received them
    output_1,    \* ConcatenateChain._call: what chain_1.run returned
    output_2,    \* ConcatenateChain._call: what chain_2.run returned
    runs1,       \* ConcatenateChain._call: runs of chain_1
    runs2,       \* ConcatenateChain._call: runs of chain_2
    raisedBy,    \* ConcatenateChain._call: the chain whose run raised
    cout,        \* ConcatenateChain._call: what the call returned or raised
    vpc,         \* voice assistant: position in the run of main()
    runs,        \* voice assistant: runs of main() in the session
    audioBytes,  \* voice assistant: audio_recorder() has a recording to return
    buttonShown, \* voice assistant: the last run rendered the Transcribe button
    clicked,     \* voice assistant: this run was triggered by the Transcribe button
    tempAudio,   \* voice assistant: temp_audio.wav exists
    transcription, \* voice assistant: what record_and_transcribe_audio returned
    whisperRaised, \* voice assistant: the Whisper call raised in this run
    notice,      \* voice assistant: what display_transcription wrote in this run
    transcriptFile, \* voice assistant: content of audio_transcription.txt
    inputText,   \* voice assistant: content of the text input field
    fieldDefault, \* voice assistant: the field content came from value=
    newInput,    \* voice assistant: new text or transcription since the last run
    userInput,   \* voice assistant: what get_user_input returned
    past,        \* voice assistant: st.session_state past
    generated,   \* voice assistant: st.session_state generated
    searchCalls, \* voice assistant: calls of search_db in the session
    displayed,   \* voice assistant: entries display_conversation showed
    vError,      \* voice assistant: the exception that ended the run
    ipc,         \* ingestion main(): position in the call
    contentFile, \* ingestion main(): content.txt exists
    loaded,      \* ingestion main(): documents the loader had read
    loadRaised,  \* ingestion main(): loading or splitting raised inside load_docs
    docs,        \* ingestion main(): what load_docs returned
    texts,       \* ingestion main(): what split_docs returned
    dbCreated,   \* ingestion main(): the DeepLake object was created
    dbDocs,      \* ingestion main(): documents added to the database
    iError,      \* ingestion main(): the exception that ended the call
    spc,         \* transcription cell: position in the cell
    videos,      \* transcription cell: vides_details
    results,     \* transcription cell: the list results
    textFile,    \* transcription cell: content of text.txt
    sError       \* transcription cell: the exception that ended the cell

vars == <<called, arg, field, vout, output, parser, parsed, pc, strategy,
          completion, request, response, result, modelCalls, parseCalls,
          cell, keyPresent, nbError, promptsBuilt, nbModelCalls, nbParses,
          nbOutput, cpc, inputs, in1, in2, output_1, output_2, runs1, runs2,
          raisedBy, cout, vpc, runs, audioBytes, buttonShown, clicked,
          tempAudio, transcription, whisperRaised, notice, transcriptFile,
          inputText, fieldDefault, newInput, userInput, past, generated,
          searchCalls, displayed, vError, ipc, contentFile, loaded,
          loadRaised, docs, texts, dbCreated, dbDocs, iError, spc, videos,
          results, textFile, sError>>

valVars == <<called, arg, field, vout>>
parseVars == <<output, parser, parsed>>
pipeVars == <<pc, strategy, completion, request, response, result,
              modelCalls, parseCalls>>
nbVars == <<cell, keyPresent, nbError, promptsBuilt, nbModelCalls, nbParses,
            nbOutput>>
chainVars == <<cpc, inputs, in1, in2, output_1, output_2, runs1, runs2,
               raisedBy, cout>>
ingestVars == <<ipc, contentFile, loaded, loadRaised, docs, texts,
                dbCreated, dbDocs, iError>>
voiceVars == <<vpc, runs, audioBytes, buttonShown, clicked, tempAudio,
               transcription, whisperRaised, notice, transcriptFile,
               inputText, fieldDefault, newInput, userInput, past,
               generated, searchCalls, displayed, vError>>
saveVars == <<spc, videos, results, textFile, sError>>

(***************************************************************************)
(* Bounds of the enumerated inputs.                                        *)
(***************************************************************************)
MaxStrLen == 2
MaxListLen == 2
MaxPipeListLen == 2

(***************************************************************************)
(* Characters: "1" stands for the numeric characters (str.isnumeric),      *)
(* "a" for the other characters, "." is the period.                        *)
(***************************************************************************)
NumericChars == {"1"}
Chars == {"1", "a", "."}
WordChars == {"1", "a"}
ReasonChars == {"a", "."}

SeqsUpTo(S, n) == UNION {[1..k -> S] : k \in 0..n}

Strs(alphabet) == SeqsUpTo(alphabet, MaxStrLen)
Lists(alphabet) == SeqsUpTo(Strs(alphabet), MaxListLen)

(***************************************************************************)
(* str.isnumeric(): true iff the string is non-empty and all of its        *)
(* characters are numeric.                                                 *)
(***************************************************************************)
isnumeric(s) == Len(s) > 0 /\ \A i \in 1..Len(s) : s[i] \in NumericChars

(***************************************************************************)
(* Outcome of a Python call: a returned value or a raised exception.       *)
(* value is the list object as the call left it (validators mutate it).    *)
(***************************************************************************)
Return(v) == [kind |-> "return", value |-> v, exc |-> "-", msg |-> "-"]
Raise(e, m, v) == [kind |-> "raise", value |-> v, exc |-> e, msg |-> m]

MsgNumber == "The word can not start with numbers!"
MsgIndex == "index out of range"

(***************************************************************************)
(* Suggestions.not_start_with_number of the one-field schema:              *)
(*     if field[0].isnumeric(): raise ValueError(...)                      *)
(*     return field                                                        *)
(* field is the whole list, so field[0] is the first word.                 *)
(***************************************************************************)
not_start_with_number_first(f) ==
    IF Len(f) = 0 THEN Raise("IndexError", MsgIndex, f)
    ELSE IF isnumeric(f[1]) THEN Raise("ValueError", MsgNumber, f)
    ELSE Return(f)

(***************************************************************************)
(* Suggestions.not_start_with_number of the two-field schema:              *)
(*     for item in field:                                                  *)
(*       if item[0].isnumeric(): raise ValueError(...)                     *)
(*     return field                                                        *)
(***************************************************************************)
RECURSIVE NotStartLoop(_, _)
NotStartLoop(f, i) ==
    IF i > Len(f) THEN Return(f)
    ELSE IF Len(f[i]) = 0 THEN Raise("IndexError", MsgIndex, f)
    ELSE IF isnumeric(<<f[i][1]>>) THEN Raise("ValueError", MsgNumber, f)
    ELSE NotStartLoop(f, i + 1)

not_start_with_number(f) == NotStartLoop(f, 1)

(***************************************************************************)
(* Suggestions.end_with_dot:                                               *)
(*     for idx, item in enumerate(field):                                  *)
(*       if item[-1] != ".": field[idx] += "."                             *)
(*     return field                                                        *)
(***************************************************************************)
RECURSIVE EndWithDotLoop(_, _)
EndWithDotLoop(f, idx) ==
    IF idx > Len(f) THEN Return(f)
    ELSE IF Len(f[idx]) = 0 THEN Raise("IndexError", MsgIndex, f)
    ELSE IF f[idx][Len(f[idx])] # "."
         THEN EndWithDotLoop([f EXCEPT ![idx] = Append(@, ".")], idx + 1)
    ELSE EndWithDotLoop(f, idx + 1)

\* an end_with_dot that appends the period without looking at the last
\* character
end_with_dot_always(f) ==
    IF \E i \in DOMAIN f : Len(f[i]) = 0 THEN Raise("IndexError", MsgIndex, f)
    ELSE Return([i \in DOMAIN f |-> Append(f[i], ".")])

end_with_dot(f) == EndWithDotLoop(f, 1)

NotCalled == [kind |-> "none", value |-> <<>>, exc |-> "-", msg |-> "-"]

(***************************************************************************)
(* The value json.loads finds under a key: none, a list of strings, or     *)
(* something that is not a list of strings.                                *)
(***************************************************************************)
Absent == [t |-> "absent", v |-> <<>>]
BadType == [t |-> "badtype", v |-> <<>>]
ListVal(l) == [t |-> "list", v |-> l]

Keys == {"words", "reasons", "reasoning"}

Malformed == [wf |-> FALSE, obj |-> [k \in Keys |-> Absent]]
Object(w, r, g) ==
    [wf |-> TRUE, obj |-> [words |-> w, reasons |-> r, reasoning |-> g]]

(***************************************************************************)
(* The three Suggestions classes.                                          *)
(***************************************************************************)
SuggestionsWords == "SuggestionsWords"
SuggestionsValidated == "SuggestionsValidated"
SuggestionsPlain == "SuggestionsPlain"
Schemas == {SuggestionsWords, SuggestionsValidated, SuggestionsPlain}

\* declared fields, in declaration order (all required: no default)
Fields(schema) ==
    IF schema = SuggestionsWords THEN <<"words">> ELSE <<"words", "reasons">>

\* the functions registered with @validator(name), in declaration order
Validators(schema, name) ==
    CASE schema = SuggestionsWords /\ name = "words" ->
            <<"not_start_with_number_first">>
      [] schema = SuggestionsValidated /\ name = "words" ->
            <<"not_start_with_number">>
      [] schema = SuggestionsValidated /\ name = "reasons" ->
            <<"end_with_dot">>
      [] OTHER -> <<>>

CallValidator(v, f) ==
    CASE v = "not_start_with_number_first" -> not_start_with_number_first(f)
      [] v = "not_start_with_number" -> not_start_with_number(f)
      [] v = "end_with_dot" -> end_with_dot(f)

(***************************************************************************)
(* Validation of one declared field by BaseModel: presence, then type,     *)
(* then the field's validators.  A ValueError raised by a validator is     *)
(* recorded as the field's error; any other exception leaves the model     *)
(* validation.                                                             *)
(***************************************************************************)
NoErr == [field |-> "-", kind |-> "-", msg |-> "-", loc |-> <<>>]
FieldErr(name, kind, msg) ==
    [field |-> name, kind |-> kind, msg |-> msg, loc |-> <<name>>]
FieldOk(v) == [st |-> "ok", value |-> v, err |-> NoErr, exc |-> "-"]
FieldError(e) == [st |-> "error", value |-> <<>>, err |-> e, exc |-> "-"]
FieldRaise(x) == [st |-> "raise", value |-> <<>>, err |-> NoErr, exc |-> x]

\* validators whose ValueError is swallowed
RECURSIVE RunValidators_ignore(_, _, _, _)
RunValidators_ignore(vs, i, name, v) ==
    IF i > Len(vs) THEN FieldOk(v)
    ELSE LET o == CallValidator(vs[i], v) IN
         IF o.kind = "return" THEN RunValidators_ignore(vs, i + 1, name, o.value)
         ELSE IF o.exc = "ValueError"
              THEN RunValidators_ignore(vs, i + 1, name, v)
         ELSE FieldRaise(o.exc)

RECURSIVE RunValidators(_, _, _, _)
RunValidators(vs, i, name, v) ==
    IF i > Len(vs) THEN FieldOk(v)
    ELSE LET o == CallValidator(vs[i], v) IN
         IF o.kind = "return" THEN RunValidators(vs, i + 1, name, o.value)
         ELSE IF o.exc = "ValueError"
              THEN FieldError(FieldErr(name, "ConstraintViolation", o.msg))
         ELSE FieldRaise(o.exc)

ValidateField(schema, name, obj) ==
    IF obj[name].t = "absent"
        THEN FieldError(FieldErr(name, "MissingField", "field required"))
    ELSE IF obj[name].t = "badtype"
        THEN FieldError(FieldErr(name, "WrongType", "value is not a valid list"))
    ELSE RunValidators(Validators(schema, name), 1, name, obj[name].v)

(***************************************************************************)
(* ParseResult: Success with the model's field values, Failure with the    *)
(* errors of the OutputParserException, or Raised when another exception   *)
(* leaves the call.                                                        *)
(***************************************************************************)
NoValue == <<>>
Success(values) ==
    [tag |-> "Success", value |-> values, errors |-> <<>>, exc |-> "-"]
\* a failure handed back as the value of the call
Failure_returned(errs) ==
    [tag |-> "Failure", value |-> NoValue, errors |-> errs, exc |-> "-"]
Failure(errs) ==
    [tag |-> "Failure", value |-> NoValue, errors |-> errs,
     exc |-> "OutputParserException"]
Raised(x) == [tag |-> "Raised", value |-> NoValue, errors |-> <<>>, exc |-> x]
NoResult == [tag |-> "None", value |-> NoValue, errors |-> <<>>, exc |-> "-"]

\* a validation that keeps the fields it could validate when others failed
RECURSIVE ValidateModel_partial(_, _, _, _, _)
ValidateModel_partial(schema, obj, i, values, errors) ==
    IF i > Len(Fields(schema))
        THEN IF errors = <<>> THEN Success(values)
             ELSE [Failure(errors) EXCEPT !.value = values]
    ELSE LET name == Fields(schema)[i]
             o == ValidateField(schema, name, obj)
         IN CASE o.st = "raise" -> Raised(o.exc)
              [] o.st = "error" ->
                    ValidateModel_partial(schema, obj, i + 1, values,
                                          Append(errors, o.err))
              [] o.st = "ok" ->
                    ValidateModel_partial(schema, obj, i + 1,
                                          (name :> o.value) @@ values, errors)

\* a validation that stops at the first field in error
RECURSIVE ValidateModel_failfast(_, _, _, _, _)
ValidateModel_failfast(schema, obj, i, values, errors) ==
    IF i > Len(Fields(schema)) THEN Success(values)
    ELSE LET name == Fields(schema)[i]
             o == ValidateField(schema, name, obj)
         IN CASE o.st = "raise" -> Raised(o.exc)
              [] o.st = "error" -> Failure(<<o.err>>)
              [] o.st = "ok" ->
                    ValidateModel_failfast(schema, obj, i + 1,
                                           (name :> o.value) @@ values, errors)

\* the fields are validated in declaration order and every error is kept
RECURSIVE ValidateModel(_, _, _, _, _)
ValidateModel(schema, obj, i, values, errors) ==
    IF i > Len(Fields(schema))
        THEN IF errors = <<>> THEN Success(values) ELSE Failure(errors)
    ELSE LET name == Fields(schema)[i]
             o == ValidateField(schema, name, obj)
         IN CASE o.st = "raise" -> Raised(o.exc)
              [] o.st = "error" ->
                    ValidateModel(schema, obj, i + 1, values,
                                  Append(errors, o.err))
              [] o.st = "ok" ->
                    ValidateModel(schema, obj, i + 1,
                                  (name :> o.value) @@ values, errors)

(***************************************************************************)
(* PydanticOutputParser(pydantic_object=schema).parse(text)                *)
(***************************************************************************)
Parse(schema, text) ==
    IF ~text.wf
        THEN Failure(<<[field |-> "-", kind |-> "MalformedSyntax",
                        msg |-> "JSONDecodeError", loc |-> <<>>]>>)
    ELSE ValidateModel(schema, text.obj, 1, <<>>, <<>>)

(***************************************************************************)
(* Validator calls on their own: the function applied to a list.           *)
(***************************************************************************)
InitValidators ==
    /\ called = "-"
    /\ arg \in Lists(Chars)
    /\ field = arg
    /\ vout = NotCalled

CallValidatorOn(v) ==
    /\ called' = v
    /\ arg' = field
    /\ vout' = CallValidator(v, field)
    /\ field' = vout'.value

Call_not_start_with_number_first ==
    /\ CallValidatorOn("not_start_with_number_first")
    /\ UNCHANGED <<parseVars, pipeVars, nbVars, chainVars, voiceVars,
                   ingestVars, saveVars>>

Call_not_start_with_number ==
    /\ CallValidatorOn("not_start_with_number")
    /\ UNCHANGED <<parseVars, pipeVars, nbVars, chainVars, voiceVars,
                   ingestVars, saveVars>>

Call_end_with_dot ==
    /\ CallValidatorOn("end_with_dot")
    /\ UNCHANGED <<parseVars, pipeVars, nbVars, chainVars, voiceVars,
                   ingestVars, saveVars>>

(***************************************************************************)
(* parser.parse(output) on the parser of each Suggestions class.           *)
(***************************************************************************)
WordValues == {Absent, BadType} \cup {ListVal(l) : l \in Lists(WordChars)}
ReasonValues == {Absent, BadType} \cup {ListVal(l) : l \in Lists(ReasonChars)}
ReasoningValues == {Absent, ListVal(<< <<"a", ".">> >>)}

\* the short lists: at most one item of at most one character
ShortLists(alphabet) == SeqsUpTo(SeqsUpTo(alphabet, 1), 1)
ShortWordValues ==
    {Absent, BadType} \cup {ListVal(l) : l \in ShortLists(WordChars)}
ShortReasonValues ==
    {Absent, BadType} \cup {ListVal(l) : l \in ShortLists(ReasonChars)}

\* the completions parsed: undecodable, or an object in which one of words
\* and reasons ranges over all the values and the other over the short ones
IsOutput(text) ==
    \/ text = Malformed
    \/ \E w \in WordValues, r \in ShortReasonValues, g \in ReasoningValues :
          text = Object(w, r, g)
    \/ \E w \in ShortWordValues, r \in ReasonValues, g \in ReasoningValues :
          text = Object(w, r, g)

NoParser == "-"

InitParse ==
    /\ IsOutput(output)
    /\ parser = NoParser
    /\ parsed = NoResult

ParseWith(schema) ==
    /\ parser' = schema
    /\ parsed' = Parse(schema, output)
    /\ UNCHANGED output

ParseWords ==
    /\ ParseWith(SuggestionsWords)
    /\ UNCHANGED <<valVars, pipeVars, nbVars, chainVars, voiceVars,
                   ingestVars, saveVars>>

ParseValidated ==
    /\ ParseWith(SuggestionsValidated)
    /\ UNCHANGED <<valVars, pipeVars, nbVars, chainVars, voiceVars,
                   ingestVars, saveVars>>

ParsePlain ==
    /\ ParseWith(SuggestionsPlain)
    /\ UNCHANGED <<valVars, pipeVars, nbVars, chainVars, voiceVars,
                   ingestVars, saveVars>>

(***************************************************************************)
(* The repairing parsers, both built on the parser of the plain class:     *)
(*   A  OutputFixingParser.from_llm(parser, llm).parse(completion)         *)
(*   B  RetryWithErrorOutputParser.from_llm(parser, llm)                   *)
(*          .parse_with_prompt(completion, model_input)                    *)
(***************************************************************************)
PipeLists == SeqsUpTo({<<"a">>, <<"b">>}, MaxPipeListLen)
PipeValues == {Absent, BadType} \cup {ListVal(l) : l \in PipeLists}
PipeTexts ==
    {Malformed} \cup
    {Object(w, r, g) : w \in PipeValues, r \in PipeValues,
                       g \in {Absent, ListVal(<< <<"a">> >>)}}

NoText == [wf |-> FALSE, obj |-> [k \in Keys |-> BadType]]
NoRequest == [completion |-> NoText, error |-> <<>>, prompt |-> FALSE]

InitPipe ==
    /\ pc = "Parsing"
    /\ strategy \in {"A", "B"}
    /\ completion \in PipeTexts
    /\ request = NoRequest
    /\ response = NoText
    /\ result = NoResult
    /\ modelCalls = 0
    /\ parseCalls = 0

\* a first parse whose success is not returned but sent to the repair
FirstParse_always ==
    /\ pc = "Parsing"
    /\ parseCalls' = parseCalls + 1
    /\ result' = Parse(SuggestionsPlain, completion)
    /\ pc' = CASE result'.tag = "Raised" -> "Failed"
               [] OTHER -> "NeedsRepair"
    /\ UNCHANGED <<strategy, completion, request, response, modelCalls>>
    /\ UNCHANGED <<valVars, parseVars, nbVars, chainVars, voiceVars,
                   ingestVars, saveVars>>

\* try: parsed = self.parser.parse(completion)
FirstParse ==
    /\ pc = "Parsing"
    /\ parseCalls' = parseCalls + 1
    /\ result' = Parse(SuggestionsPlain, completion)
    /\ pc' = CASE result'.tag = "Success" -> "Success"
               [] result'.tag = "Failure" -> "NeedsRepair"
               [] OTHER -> "Failed"
    /\ UNCHANGED <<strategy, completion, request, response, modelCalls>>
    /\ UNCHANGED <<valVars, parseVars, nbVars, chainVars, voiceVars,
                   ingestVars, saveVars>>

\* a repair request that leaves the prompt out under both strategies
BuildRepair_noprompt ==
    /\ pc = "NeedsRepair"
    /\ request' = [completion |-> completion, error |-> result.errors,
                   prompt |-> FALSE]
    /\ pc' = "Repairing"
    /\ UNCHANGED <<strategy, completion, response, result,
                   modelCalls, parseCalls>>
    /\ UNCHANGED <<valVars, parseVars, nbVars, chainVars, voiceVars,
                   ingestVars, saveVars>>

\* except OutputParserException as e: the retry chain's input is built from
\* the completion and the error; strategy B adds the original prompt
BuildRepair ==
    /\ pc = "NeedsRepair"
    /\ request' = [completion |-> completion, error |-> result.errors,
                   prompt |-> (strategy = "B")]
    /\ pc' = "Repairing"
    /\ UNCHANGED <<strategy, completion, response, result,
                   modelCalls, parseCalls>>
    /\ UNCHANGED <<valVars, parseVars, nbVars, chainVars, voiceVars,
                   ingestVars, saveVars>>

\* a repair that goes round again when its own parse fails
RepairReturns_loop ==
    /\ pc = "Repairing"
    /\ \E text \in PipeTexts :
          /\ response' = text
          /\ result' = Parse(SuggestionsPlain, text)
    /\ modelCalls' = modelCalls + 1
    /\ parseCalls' = parseCalls + 1
    /\ pc' = IF result'.tag = "Success" THEN "Success" ELSE "NeedsRepair"
    /\ UNCHANGED <<strategy, completion, request>>
    /\ UNCHANGED <<valVars, parseVars, nbVars, chainVars, voiceVars,
                   ingestVars, saveVars>>

\* a repair that hands back the model's text without parsing it again
RepairReturns_noparse ==
    /\ pc = "Repairing"
    /\ \E text \in PipeTexts : response' = text
    /\ modelCalls' = modelCalls + 1
    /\ pc' = "Failed"
    /\ UNCHANGED <<strategy, completion, request, result, parseCalls>>
    /\ UNCHANGED <<valVars, parseVars, nbVars, chainVars, voiceVars,
                   ingestVars, saveVars>>

\* a repair that starts the whole call again when the parse of the response
\* fails
RepairReturns_again ==
    /\ pc = "Repairing"
    /\ \E text \in PipeTexts :
          IF Parse(SuggestionsPlain, text).tag = "Success"
          THEN /\ response' = text
               /\ result' = Parse(SuggestionsPlain, text)
               /\ modelCalls' = modelCalls + 1
               /\ parseCalls' = parseCalls + 1
               /\ pc' = "Success"
               /\ UNCHANGED request
          ELSE /\ response' = NoText
               /\ result' = NoResult
               /\ modelCalls' = 0
               /\ parseCalls' = 0
               /\ pc' = "Parsing"
               /\ request' = NoRequest
    /\ UNCHANGED <<strategy, completion>>
    /\ UNCHANGED <<valVars, parseVars, nbVars, chainVars, voiceVars,
                   ingestVars, saveVars>>

\* a repair that puts the words of the first completion into the value it
\* returns
RepairReturns_keepwords ==
    /\ pc = "Repairing"
    /\ \E text \in PipeTexts :
          /\ response' = text
          /\ result' =
                IF /\ Parse(SuggestionsPlain, text).tag = "Success"
                   /\ completion.wf /\ completion.obj["words"].t = "list"
                THEN Success([Parse(SuggestionsPlain, text).value
                                EXCEPT !["words"] = completion.obj["words"].v])
                ELSE Parse(SuggestionsPlain, text)
    /\ modelCalls' = modelCalls + 1
    /\ parseCalls' = parseCalls + 1
    /\ pc' = IF result'.tag = "Success" THEN "Success" ELSE "Failed"
    /\ UNCHANGED <<strategy, completion, request>>
    /\ UNCHANGED <<valVars, parseVars, nbVars, chainVars, voiceVars,
                   ingestVars, saveVars>>

\* new_completion = self.retry_chain.run(...);
\* return self.parser.parse(new_completion)
RepairReturns ==
    /\ pc = "Repairing"
    /\ \E text \in PipeTexts :
          /\ response' = text
          /\ result' = Parse(SuggestionsPlain, text)
    /\ modelCalls' = modelCalls + 1
    /\ parseCalls' = parseCalls + 1
    /\ pc' = IF result'.tag = "Success" THEN "Success" ELSE "Failed"
    /\ UNCHANGED <<strategy, completion, request>>
    /\ UNCHANGED <<valVars, parseVars, nbVars, chainVars, voiceVars,
                   ingestVars, saveVars>>

\* a repair that catches the model call's exception and reports the
\* failure of the first parse instead
RepairRaises_swallow ==
    /\ pc = "Repairing"
    /\ modelCalls' = modelCalls + 1
    /\ result' = Failure(request.error)
    /\ pc' = "Failed"
    /\ UNCHANGED <<strategy, completion, request, response, parseCalls>>
    /\ UNCHANGED <<valVars, parseVars, nbVars, chainVars, voiceVars,
                   ingestVars, saveVars>>

\* self.retry_chain.run(...) raises: the exception leaves the call
RepairRaises ==
    /\ pc = "Repairing"
    /\ modelCalls' = modelCalls + 1
    /\ result' = Raised("ServiceError")
    /\ pc' = "Failed"
    /\ UNCHANGED <<strategy, completion, request, response, parseCalls>>
    /\ UNCHANGED <<valVars, parseVars, nbVars, chainVars, voiceVars,
                   ingestVars, saveVars>>

(***************************************************************************)
(* A run of the notebook's first pipeline, cell after cell; the run stops  *)
(* at the first cell that raises.                                          *)
(***************************************************************************)
NoKey == "None"
TheKey == "sk-"

\* langchain_custom_utils.helper.get_openai_api_key(): with the key in the
\* environment it returns the key; without it the call reports the missing
\* key, or hands back nothing
get_openai_api_key(present) ==
    IF present THEN {Return(TheKey)}
    ELSE {Raise("ConfigurationError", "OPENAI_API_KEY", NoKey), Return(NoKey)}

InitNotebook ==
    /\ cell = "GetKey"
    /\ keyPresent \in BOOLEAN
    /\ nbError = "-"
    /\ promptsBuilt = 0
    /\ nbModelCalls = 0
    /\ nbParses = 0
    /\ nbOutput = NoText

\* OPENAI_API_KEY = get_openai_api_key()
GetKeyCell ==
    /\ cell = "GetKey"
    /\ \E o \in get_openai_api_key(keyPresent) :
          /\ cell' = IF o.kind = "return" THEN "Construct" ELSE "Halted"
          /\ nbError' = o.exc
    /\ UNCHANGED <<keyPresent, promptsBuilt, nbModelCalls, nbParses, nbOutput>>
    /\ UNCHANGED <<valVars, parseVars, pipeVars, chainVars, voiceVars,
                   ingestVars, saveVars>>

\* a constructor that does not look for the key
ConstructModel_lazy ==
    /\ cell = "Construct"
    /\ cell' = "BuildPrompt"
    /\ UNCHANGED <<keyPresent, nbError, promptsBuilt, nbModelCalls, nbParses,
                   nbOutput>>
    /\ UNCHANGED <<valVars, parseVars, pipeVars, chainVars, voiceVars,
                   ingestVars, saveVars>>

\* model = ChatOpenAI(model_name=model_name, temperature=temperature): the
\* constructor reads OPENAI_API_KEY from the environment and raises when it
\* is not there
ConstructModel ==
    /\ cell = "Construct"
    /\ cell' = IF keyPresent THEN "BuildPrompt" ELSE "Halted"
    /\ nbError' = IF keyPresent THEN nbError ELSE "ConfigurationError"
    /\ UNCHANGED <<keyPresent, promptsBuilt, nbModelCalls, nbParses, nbOutput>>
    /\ UNCHANGED <<valVars, parseVars, pipeVars, chainVars, voiceVars,
                   ingestVars, saveVars>>

\* class Suggestions ...; parser = PydanticOutputParser(...);
\* prompt_template = PromptTemplate(...)
BuildPrompt ==
    /\ cell = "BuildPrompt"
    /\ promptsBuilt' = promptsBuilt + 1
    /\ cell' = "RunChain"
    /\ UNCHANGED <<keyPresent, nbError, nbModelCalls, nbParses, nbOutput>>
    /\ UNCHANGED <<valVars, parseVars, pipeVars, chainVars, voiceVars,
                   ingestVars, saveVars>>

\* chain = LLMChain(llm=model, prompt=prompt_template);
\* output = chain.run({...}) returns the completion
RunChainReturns ==
    /\ cell = "RunChain"
    /\ keyPresent
    /\ \E text \in PipeTexts : nbOutput' = text
    /\ nbModelCalls' = nbModelCalls + 1
    /\ cell' = "Parse"
    /\ UNCHANGED <<keyPresent, nbError, promptsBuilt, nbParses>>
    /\ UNCHANGED <<valVars, parseVars, pipeVars, chainVars, voiceVars,
                   ingestVars, saveVars>>

\* output = chain.run({...}) raises
RunChainRaises ==
    /\ cell = "RunChain"
    /\ nbModelCalls' = nbModelCalls + 1
    /\ nbError' = "ServiceError"
    /\ cell' = "Halted"
    /\ UNCHANGED <<keyPresent, promptsBuilt, nbParses, nbOutput>>
    /\ UNCHANGED <<valVars, parseVars, pipeVars, chainVars, voiceVars,
                   ingestVars, saveVars>>

\* parser.parse(output)
ParseCell ==
    /\ cell = "Parse"
    /\ nbParses' = nbParses + 1
    /\ LET r == Parse(SuggestionsWords, nbOutput) IN
          /\ cell' = IF r.tag = "Success" THEN "Done" ELSE "Halted"
          /\ nbError' = r.exc
    /\ UNCHANGED <<keyPresent, promptsBuilt, nbModelCalls, nbOutput>>
    /\ UNCHANGED <<valVars, parseVars, pipeVars, chainVars, voiceVars,
                   ingestVars, saveVars>>

(***************************************************************************)
(* ConcatenateChain._call(inputs).  inputs is a mapping with the key word; *)
(* chain_1.run and chain_2.run return a str or raise.                      *)
(***************************************************************************)
InputWords == Strs({"a"})
ChainOutputs == Strs({"a", "b"})
NoInputs == [word |-> <<"-">>]

InitChain ==
    /\ cpc = "chain_1"
    /\ inputs \in {[word |-> w] : w \in InputWords}
    /\ in1 = NoInputs
    /\ in2 = NoInputs
    /\ output_1 = <<>>
    /\ output_2 = <<>>
    /\ runs1 = 0
    /\ runs2 = 0
    /\ raisedBy = "-"
    /\ cout = NotCalled

\* output_1 = self.chain_1.run(inputs)
Chain1Returns ==
    /\ cpc = "chain_1"
    /\ in1' = inputs
    /\ runs1' = runs1 + 1
    /\ \E o \in ChainOutputs : output_1' = o
    /\ cpc' = "chain_2"
    /\ UNCHANGED <<inputs, in2, output_2, runs2, raisedBy, cout>>
    /\ UNCHANGED <<valVars, parseVars, pipeVars, nbVars, voiceVars,
                   ingestVars, saveVars>>

\* self.chain_1.run(inputs) raises: the exception leaves _call
Chain1Raises ==
    /\ cpc = "chain_1"
    /\ in1' = inputs
    /\ runs1' = runs1 + 1
    /\ raisedBy' = "chain_1"
    /\ cout' = Raise("ServiceError", "-", <<>>)
    /\ cpc' = "Failed"
    /\ UNCHANGED <<inputs, in2, output_1, output_2, runs2>>
    /\ UNCHANGED <<valVars, parseVars, pipeVars, nbVars, voiceVars,
                   ingestVars, saveVars>>

\* a _call that puts the output of chain_2 first
Chain2Returns_swapped ==
    /\ cpc = "chain_2"
    /\ in2' = inputs
    /\ runs2' = runs2 + 1
    /\ \E o \in ChainOutputs :
          /\ output_2' = o
          /\ cout' = Return([concat_output |-> o \o output_1])
    /\ cpc' = "Done"
    /\ UNCHANGED <<inputs, in1, output_1, runs1, raisedBy>>
    /\ UNCHANGED <<valVars, parseVars, pipeVars, nbVars, voiceVars,
                   ingestVars, saveVars>>

\* output_2 = self.chain_2.run(inputs);
\* return {'concat_output': output_1 + output_2}
Chain2Returns ==
    /\ cpc = "chain_2"
    /\ in2' = inputs
    /\ runs2' = runs2 + 1
    /\ \E o \in ChainOutputs :
          /\ output_2' = o
          /\ cout' = Return([concat_output |-> output_1 \o o])
    /\ cpc' = "Done"
    /\ UNCHANGED <<inputs, in1, output_1, runs1, raisedBy>>
    /\ UNCHANGED <<valVars, parseVars, pipeVars, nbVars, voiceVars,
                   ingestVars, saveVars>>

\* self.chain_2.run(inputs) raises: the exception leaves _call
Chain2Raises ==
    /\ cpc = "chain_2"
    /\ in2' = inputs
    /\ runs2' = runs2 + 1
    /\ raisedBy' = "chain_2"
    /\ cout' = Raise("ServiceError", "-", <<>>)
    /\ cpc' = "Failed"
    /\ UNCHANGED <<inputs, in1, output_1, output_2, runs1>>
    /\ UNCHANGED <<valVars, parseVars, pipeVars, nbVars, voiceVars,
                   ingestVars, saveVars>>

(***************************************************************************)
(* The voice assistant (Streamlit script).  Every user event makes         *)
(* Streamlit run main() again from the top; st.session_state, the widget   *)
(* values and the files live on between the runs.                          *)
(***************************************************************************)
MaxRuns == 3

None == "None"
Queries == {"q1", "q2"}
WhisperTexts == {"", "t"}
Greeting == [text |-> "I am ready to help you", query |-> "-"]

\* what openai.Audio.transcribe does: returns a response or raises
WhisperOutcomes ==
    {[raised |-> TRUE, text |-> None]} \cup
    {[raised |-> FALSE, text |-> t] : t \in WhisperTexts}

Truthy(t) == t # None /\ t # ""

\* transcribe_audio(audio_file_path, openai_key): response["text"], or None
\* when the call raised
transcribe_audio(w) == IF w.raised THEN None ELSE w.text

\* a display_transcription that writes nothing when there is no text
display_transcription_silent(t) ==
    IF Truthy(t) THEN "Transcription" ELSE "-"

\* display_transcription(transcription): what it writes on the page
display_transcription(t) ==
    IF Truthy(t) THEN "Transcription" ELSE "Error transcribing audio."

\* str(output["result"]) of qa({'query': user_input})
Response(q) == [text |-> "result", query |-> q]

InitVoice ==
    /\ vpc = "Idle"
    /\ runs = 0
    /\ audioBytes = FALSE
    /\ buttonShown = FALSE
    /\ clicked = FALSE
    /\ tempAudio = FALSE
    /\ transcription = None
    /\ whisperRaised = FALSE
    /\ notice = "-"
    /\ transcriptFile = None
    /\ inputText = ""
    /\ fieldDefault = FALSE
    /\ newInput = FALSE
    /\ userInput = ""
    /\ past = <<>>
    /\ generated = <<>>
    /\ searchCalls = 0
    /\ displayed = 0
    /\ vError = "-"

\* main() is called: the script starts again from the top
StartRun ==
    /\ vpc = "Idle"
    /\ runs < MaxRuns
    /\ runs' = runs + 1
    /\ vpc' = "Load"
    /\ transcription' = None
    /\ whisperRaised' = FALSE
    /\ notice' = "-"
    /\ userInput' = ""
    /\ displayed' = 0
    /\ vError' = "-"
    /\ UNCHANGED <<tempAudio, transcriptFile, past, generated, searchCalls,
                   buttonShown>>

\* the user types a query into the text field
UserTypes ==
    /\ StartRun
    /\ \E q \in Queries : inputText' = q
    /\ fieldDefault' = FALSE
    /\ newInput' = TRUE
    /\ clicked' = FALSE
    /\ UNCHANGED audioBytes
    /\ UNCHANGED <<valVars, parseVars, pipeVars, nbVars, chainVars,
                   ingestVars, saveVars>>

\* the user records audio
UserRecords ==
    /\ StartRun
    /\ audioBytes' = TRUE
    /\ newInput' = FALSE
    /\ clicked' = FALSE
    /\ UNCHANGED <<inputText, fieldDefault>>
    /\ UNCHANGED <<valVars, parseVars, pipeVars, nbVars, chainVars,
                   ingestVars, saveVars>>

\* the user clicks the Transcribe button
UserClicksTranscribe ==
    /\ buttonShown
    /\ StartRun
    /\ clicked' = TRUE
    /\ newInput' = FALSE
    /\ UNCHANGED <<audioBytes, inputText, fieldDefault>>
    /\ UNCHANGED <<valVars, parseVars, pipeVars, nbVars, chainVars,
                   ingestVars, saveVars>>

\* the page is opened or run again with nothing new from the user
Rerun ==
    /\ StartRun
    /\ clicked' = FALSE
    /\ newInput' = FALSE
    /\ UNCHANGED <<audioBytes, inputText, fieldDefault>>
    /\ UNCHANGED <<valVars, parseVars, pipeVars, nbVars, chainVars,
                   ingestVars, saveVars>>

\* db = load_embeddings_and_database(dataset_path)
LoadDatabase ==
    /\ vpc = "Load"
    /\ \E ok \in BOOLEAN :
          /\ vpc' = IF ok THEN "Record" ELSE "Idle"
          /\ vError' = IF ok THEN vError ELSE "load_embeddings_and_database"
          /\ buttonShown' = IF ok THEN buttonShown ELSE FALSE
    /\ UNCHANGED <<runs, audioBytes, clicked, tempAudio, transcription,
                   whisperRaised, notice, transcriptFile, inputText,
                   fieldDefault, newInput, userInput, past, generated,
                   searchCalls, displayed>>
    /\ UNCHANGED <<valVars, parseVars, pipeVars, nbVars, chainVars,
                   ingestVars, saveVars>>

\* transcription = record_and_transcribe_audio()
RecordAndTranscribe ==
    /\ vpc = "Record"
    /\ IF audioBytes /\ clicked
       THEN \E w \in WhisperOutcomes :
              /\ whisperRaised' = w.raised
              /\ transcription' = transcribe_audio(w)
              /\ tempAudio' = FALSE
              /\ notice' = display_transcription(transcription')
              /\ transcriptFile' = IF Truthy(transcription')
                                   THEN transcription' ELSE transcriptFile
       ELSE /\ tempAudio' = (audioBytes \/ tempAudio)
            /\ UNCHANGED <<whisperRaised, transcription, notice,
                           transcriptFile>>
    /\ buttonShown' = audioBytes
    /\ vpc' = "Input"
    /\ UNCHANGED <<runs, audioBytes, clicked, inputText, fieldDefault,
                   newInput, userInput, past, generated, searchCalls,
                   displayed, vError>>
    /\ UNCHANGED <<valVars, parseVars, pipeVars, nbVars, chainVars,
                   ingestVars, saveVars>>

\* user_input = get_user_input(transcription): a transcription becomes the
\* content of the field; without one the field keeps what the user typed,
\* and a content that came from value= is kept or dropped.
\* Then "generated" and "past" are put into st.session_state if not there.
GetUserInput ==
    /\ vpc = "Input"
    /\ IF Truthy(transcription)
       THEN /\ inputText' = transcription
            /\ fieldDefault' = TRUE
            /\ newInput' = TRUE
       ELSE /\ \E kept \in (IF fieldDefault THEN BOOLEAN ELSE {TRUE}) :
                  /\ inputText' = IF kept THEN inputText ELSE ""
                  /\ fieldDefault' = (fieldDefault /\ kept)
            /\ UNCHANGED newInput
    /\ userInput' = inputText'
    /\ generated' = IF generated = <<>> THEN <<Greeting>> ELSE generated
    /\ past' = IF past = <<>> THEN <<"Hey there!">> ELSE past
    /\ vpc' = "Search"
    /\ UNCHANGED <<runs, audioBytes, buttonShown, clicked, tempAudio,
                   transcription, whisperRaised, notice, transcriptFile,
                   searchCalls, displayed, vError>>
    /\ UNCHANGED <<valVars, parseVars, pipeVars, nbVars, chainVars,
                   ingestVars, saveVars>>

\* what can happen in the body of "if user_input:": everything returns, or
\* search_db, the read of output['source_documents'] or the read of
\* output["result"] raises
SearchOutcomes == {"ok", "search_db", "source_documents", "result"}

\* if user_input: output = search_db(user_input, db); ...;
\* st.session_state.past.append(user_input);
\* response = str(output["result"]);
\* st.session_state.generated.append(response)
SearchAndAppend ==
    /\ vpc = "Search"
    /\ IF userInput = ""
       THEN /\ vpc' = "Display"
            /\ UNCHANGED <<past, generated, searchCalls, vError>>
       ELSE /\ searchCalls' = searchCalls + 1
            /\ \E o \in SearchOutcomes :
                  /\ past' = IF o \in {"ok", "result"}
                             THEN Append(past, userInput) ELSE past
                  /\ generated' = IF o = "ok"
                                  THEN Append(generated, Response(userInput))
                                  ELSE generated
                  /\ vError' = IF o = "ok" THEN vError ELSE o
                  /\ vpc' = IF o = "ok" THEN "Display" ELSE "Idle"
    /\ UNCHANGED <<runs, audioBytes, buttonShown, clicked, tempAudio,
                   transcription, whisperRaised, notice, transcriptFile,
                   inputText, fieldDefault, newInput, userInput, displayed>>
    /\ UNCHANGED <<valVars, parseVars, pipeVars, nbVars, chainVars,
                   ingestVars, saveVars>>

\* if st.session_state["generated"]: display_conversation(st.session_state):
\* entry i of past and of generated is shown for every index of generated;
\* the Eleven Labs call for an entry returns or raises
DisplayConversation ==
    /\ vpc = "Display"
    /\ \E spoken \in BOOLEAN :
          IF Len(past) < Len(generated)
          THEN /\ displayed' = Len(past)
               /\ vError' = "IndexError"
          ELSE /\ displayed' = IF spoken THEN Len(generated) ELSE 0
               /\ vError' = IF spoken THEN vError ELSE "generate"
    /\ vpc' = "Idle"
    /\ UNCHANGED <<runs, audioBytes, buttonShown, clicked, tempAudio,
                   transcription, whisperRaised, notice, transcriptFile,
                   inputText, fieldDefault, newInput, userInput, past,
                   generated, searchCalls>>
    /\ UNCHANGED <<valVars, parseVars, pipeVars, nbVars, chainVars,
                   ingestVars, saveVars>>

(***************************************************************************)
(* The knowledge-base ingestion main(): scrape the pages into content.txt, *)
(* load and split the file, create the Deep Lake database, add the         *)
(* documents, remove content.txt.                                          *)
(***************************************************************************)
DocTexts == {"a", "b"}
DocLists == SeqsUpTo(DocTexts, MaxListLen)

\* what loader.load_and_split() does: returns the documents, or raises
\* after having read some of them
LoaderOutcomes == {[raised |-> r, docs |-> d] : r \in BOOLEAN, d \in DocLists}

\* a load_docs that keeps what was read before the error
load_docs_partial(o) == o.docs

\* load_docs(root_dir, filename): docs = []; try: docs.extend(
\* loader.load_and_split()) except Exception: pass; return docs
load_docs(o) == IF o.raised THEN <<>> ELSE o.docs

\* a document longer than the chunk size becomes two chunks
RECURSIVE Twice(_)
Twice(d) == IF d = <<>> THEN <<>>
            ELSE <<Head(d), Head(d)>> \o Twice(Tail(d))

\* split_docs(docs): every document becomes one chunk or more
split_docs(d) == {d, Twice(d)}

InitIngest ==
    /\ ipc = "Scrape"
    /\ contentFile \in BOOLEAN
    /\ loaded = <<>>
    /\ loadRaised = FALSE
    /\ docs = <<>>
    /\ texts = <<>>
    /\ dbCreated = FALSE
    /\ dbDocs = <<>>
    /\ iError = "-"

\* content = scrape_all_content(base_url, relative_urls, filename): a page
\* that cannot be scraped raises before the file is opened
ScrapeAllContent ==
    /\ ipc = "Scrape"
    /\ \E ok \in BOOLEAN :
          /\ contentFile' = (ok \/ contentFile)
          /\ iError' = IF ok THEN iError ELSE "scrape_all_content"
          /\ ipc' = IF ok THEN "Load" ELSE "Failed"
    /\ UNCHANGED <<loaded, loadRaised, docs, texts, dbCreated, dbDocs>>
    /\ UNCHANGED <<valVars, parseVars, pipeVars, nbVars, chainVars, voiceVars,
                   saveVars>>

\* docs = load_docs(root_dir, filename)
LoadDocs ==
    /\ ipc = "Load"
    /\ \E o \in LoaderOutcomes :
          /\ loaded' = o.docs
          /\ loadRaised' = o.raised
          /\ docs' = load_docs(o)
    /\ ipc' = "Split"
    /\ UNCHANGED <<contentFile, texts, dbCreated, dbDocs, iError>>
    /\ UNCHANGED <<valVars, parseVars, pipeVars, nbVars, chainVars, voiceVars,
                   saveVars>>

\* texts = split_docs(docs)
SplitDocs ==
    /\ ipc = "Split"
    /\ texts' \in split_docs(docs)
    /\ ipc' = "CreateDb"
    /\ UNCHANGED <<contentFile, loaded, loadRaised, docs, dbCreated, dbDocs,
                   iError>>
    /\ UNCHANGED <<valVars, parseVars, pipeVars, nbVars, chainVars, voiceVars,
                   saveVars>>

\* db = DeepLake(dataset_path=dataset_path, embedding_function=embeddings)
CreateDatabase ==
    /\ ipc = "CreateDb"
    /\ \E ok \in BOOLEAN :
          /\ dbCreated' = ok
          /\ iError' = IF ok THEN iError ELSE "DeepLake"
          /\ ipc' = IF ok THEN "Add" ELSE "Failed"
    /\ UNCHANGED <<contentFile, loaded, loadRaised, docs, texts, dbDocs>>
    /\ UNCHANGED <<valVars, parseVars, pipeVars, nbVars, chainVars, voiceVars,
                   saveVars>>

\* db.add_documents(texts)
AddDocuments ==
    /\ ipc = "Add"
    /\ \E ok \in BOOLEAN :
          /\ dbDocs' = IF ok THEN texts ELSE dbDocs
          /\ iError' = IF ok THEN iError ELSE "add_documents"
          /\ ipc' = IF ok THEN "Remove" ELSE "Failed"
    /\ UNCHANGED <<contentFile, loaded, loadRaised, docs, texts, dbCreated>>
    /\ UNCHANGED <<valVars, parseVars, pipeVars, nbVars, chainVars, voiceVars,
                   saveVars>>

\* os.remove(filename)
RemoveContentFile ==
    /\ ipc = "Remove"
    /\ contentFile' = FALSE
    /\ ipc' = "Done"
    /\ UNCHANGED <<loaded, loadRaised, docs, texts, dbCreated, dbDocs, iError>>
    /\ UNCHANGED <<valVars, parseVars, pipeVars, nbVars, chainVars, voiceVars,
                   saveVars>>

(***************************************************************************)
(* The cell that transcribes the downloaded videos and saves the results   *)
(* (YouTube summarizer notebook).  text.txt holds the transcript of the    *)
(* single video that an earlier cell wrote.                                *)
(***************************************************************************)
VideoFiles == {"1_0.mp4", "1_1.mp4"}
VideoLists == SeqsUpTo(VideoFiles, MaxListLen)
VideoTexts == {"", "a", "b"}
EarlierTranscript == <<"lecuninterview">>

InitSave ==
    /\ spc = "Transcribe"
    /\ videos \in VideoLists
    /\ results = <<>>
    /\ textFile = EarlierTranscript
    /\ sError = "-"

\* for video in vides_details: result = model.transcribe(video[0]);
\* results.append(result['text'])
TranscribeVideo ==
    /\ spc = "Transcribe"
    /\ Len(results) < Len(videos)
    /\ \/ \E t \in VideoTexts :
             /\ results' = Append(results, t)
             /\ UNCHANGED <<spc, sError>>
       \/ /\ sError' = "transcribe"
          /\ spc' = "Failed"
          /\ UNCHANGED results
    /\ UNCHANGED <<videos, textFile>>
    /\ UNCHANGED <<valVars, parseVars, pipeVars, nbVars, chainVars, voiceVars,
                   ingestVars>>

\* with open('text.txt', 'w') as file: file.write(results['text']):
\* open truncates the file; results is a list, so results['text'] raises
\* TypeError before anything is written
SaveResults ==
    /\ spc = "Transcribe"
    /\ Len(results) = Len(videos)
    /\ textFile' = <<>>
    /\ sError' = "TypeError"
    /\ spc' = "Failed"
    /\ UNCHANGED <<videos, results>>
    /\ UNCHANGED <<valVars, parseVars, pipeVars, nbVars, chainVars, voiceVars,
                   ingestVars>>

(***************************************************************************)
(* Specifications.                                                         *)
(***************************************************************************)
NextPipe == FirstParse \/ BuildRepair \/ RepairReturns \/ RepairRaises
NextParse == ParseWords \/ ParseValidated \/ ParsePlain
NextValidators ==
    \/ Call_not_start_with_number_first
    \/ Call_not_start_with_number
    \/ Call_end_with_dot

NextVoice ==
    \/ UserTypes
    \/ UserRecords
    \/ UserClicksTranscribe
    \/ Rerun
    \/ LoadDatabase
    \/ RecordAndTranscribe
    \/ GetUserInput
    \/ SearchAndAppend
    \/ DisplayConversation
NextIngest ==
    \/ ScrapeAllContent
    \/ LoadDocs
    \/ SplitDocs
    \/ CreateDatabase
    \/ AddDocuments
    \/ RemoveContentFile
NextSave == TranscribeVideo \/ SaveResults
NextNotebook ==
    \/ GetKeyCell
    \/ ConstructModel
    \/ BuildPrompt
    \/ RunChainReturns
    \/ RunChainRaises
    \/ ParseCell
NextChain == Chain1Returns \/ Chain1Raises \/ Chain2Returns \/ Chain2Raises

IdleIngest ==
    /\ ipc = "Scrape" /\ contentFile = FALSE /\ loaded = <<>>
    /\ loadRaised = FALSE /\ docs = <<>> /\ texts = <<>>
    /\ dbCreated = FALSE /\ dbDocs = <<>> /\ iError = "-"

IdleSave ==
    /\ spc = "Transcribe" /\ videos = <<>> /\ results = <<>>
    /\ textFile = EarlierTranscript /\ sError = "-"

IdleVoice ==
    /\ vpc = "Idle" /\ runs = 0 /\ audioBytes = FALSE /\ buttonShown = FALSE
    /\ clicked = FALSE /\ tempAudio = FALSE /\ transcription = None
    /\ whisperRaised = FALSE /\ notice = "-" /\ transcriptFile = None
    /\ inputText = "" /\ fieldDefault = FALSE /\ newInput = FALSE
    /\ userInput = "" /\ past = <<>> /\ generated = <<>>
    /\ searchCalls = 0 /\ displayed = 0 /\ vError = "-"

InitP ==
    /\ InitPipe
    /\ IdleVoice
    /\ IdleIngest
    /\ IdleSave
    /\ called = "-" /\ arg = <<>> /\ field = <<>> /\ vout = NotCalled
    /\ output = Malformed /\ parser = NoParser /\ parsed = NoResult
    /\ cell = "GetKey" /\ keyPresent = TRUE /\ nbError = "-"
    /\ promptsBuilt = 0 /\ nbModelCalls = 0 /\ nbParses = 0
    /\ nbOutput = NoText
    /\ cpc = "chain_1" /\ inputs = NoInputs /\ in1 = NoInputs
    /\ in2 = NoInputs /\ output_1 = <<>> /\ output_2 = <<>>
    /\ runs1 = 0 /\ runs2 = 0 /\ raisedBy = "-" /\ cout = NotCalled
InitD ==
    /\ InitParse
    /\ IdleVoice
    /\ IdleIngest
    /\ IdleSave
    /\ called = "-" /\ arg = <<>> /\ field = <<>> /\ vout = NotCalled
    /\ pc = "Parsing" /\ strategy = "A" /\ completion = Malformed
    /\ request = NoRequest /\ response = NoText /\ result = NoResult
    /\ modelCalls = 0 /\ parseCalls = 0
    /\ cell = "GetKey" /\ keyPresent = TRUE /\ nbError = "-"
    /\ promptsBuilt = 0 /\ nbModelCalls = 0 /\ nbParses = 0
    /\ nbOutput = NoText
    /\ cpc = "chain_1" /\ inputs = NoInputs /\ in1 = NoInputs
    /\ in2 = NoInputs /\ output_1 = <<>> /\ output_2 = <<>>
    /\ runs1 = 0 /\ runs2 = 0 /\ raisedBy = "-" /\ cout = NotCalled
InitV ==
    /\ InitValidators
    /\ IdleVoice
    /\ IdleIngest
    /\ IdleSave
    /\ output = Malformed /\ parser = NoParser /\ parsed = NoResult
    /\ pc = "Parsing" /\ strategy = "A" /\ completion = Malformed
    /\ request = NoRequest /\ response = NoText /\ result = NoResult
    /\ modelCalls = 0 /\ parseCalls = 0
    /\ cell = "GetKey" /\ keyPresent = TRUE /\ nbError = "-"
    /\ promptsBuilt = 0 /\ nbModelCalls = 0 /\ nbParses = 0
    /\ nbOutput = NoText
    /\ cpc = "chain_1" /\ inputs = NoInputs /\ in1 = NoInputs
    /\ in2 = NoInputs /\ output_1 = <<>> /\ output_2 = <<>>
    /\ runs1 = 0 /\ runs2 = 0 /\ raisedBy = "-" /\ cout = NotCalled
InitN ==
    /\ InitNotebook
    /\ IdleVoice
    /\ IdleIngest
    /\ IdleSave
    /\ called = "-" /\ arg = <<>> /\ field = <<>> /\ vout = NotCalled
    /\ output = Malformed /\ parser = NoParser /\ parsed = NoResult
    /\ pc = "Parsing" /\ strategy = "A" /\ completion = Malformed
    /\ request = NoRequest /\ response = NoText /\ result = NoResult
    /\ modelCalls = 0 /\ parseCalls = 0
    /\ cpc = "chain_1" /\ inputs = NoInputs /\ in1 = NoInputs
    /\ in2 = NoInputs /\ output_1 = <<>> /\ output_2 = <<>>
    /\ runs1 = 0 /\ runs2 = 0 /\ raisedBy = "-" /\ cout = NotCalled
InitC ==
    /\ InitChain
    /\ IdleVoice
    /\ IdleIngest
    /\ IdleSave
    /\ called = "-" /\ arg = <<>> /\ field = <<>> /\ vout = NotCalled
    /\ output = Malformed /\ parser = NoParser /\ parsed = NoResult
    /\ pc = "Parsing" /\ strategy = "A" /\ completion = Malformed
    /\ request = NoRequest /\ response = NoText /\ result = NoResult
    /\ modelCalls = 0 /\ parseCalls = 0
    /\ cell = "GetKey" /\ keyPresent = TRUE /\ nbError = "-"
    /\ promptsBuilt = 0 /\ nbModelCalls = 0 /\ nbParses = 0
    /\ nbOutput = NoText

InitA ==
    /\ InitVoice
    /\ IdleIngest
    /\ IdleSave
    /\ called = "-" /\ arg = <<>> /\ field = <<>> /\ vout = NotCalled
    /\ output = Malformed /\ parser = NoParser /\ parsed = NoResult
    /\ pc = "Parsing" /\ strategy = "A" /\ completion = Malformed
    /\ request = NoRequest /\ response = NoText /\ result = NoResult
    /\ modelCalls = 0 /\ parseCalls = 0
    /\ cell = "GetKey" /\ keyPresent = TRUE /\ nbError = "-"
    /\ promptsBuilt = 0 /\ nbModelCalls = 0 /\ nbParses = 0
    /\ nbOutput = NoText
    /\ cpc = "chain_1" /\ inputs = NoInputs /\ in1 = NoInputs
    /\ in2 = NoInputs /\ output_1 = <<>> /\ output_2 = <<>>
    /\ runs1 = 0 /\ runs2 = 0 /\ raisedBy = "-" /\ cout = NotCalled

InitI ==
    /\ InitIngest
    /\ IdleVoice
    /\ IdleSave
    /\ called = "-" /\ arg = <<>> /\ field = <<>> /\ vout = NotCalled
    /\ output = Malformed /\ parser = NoParser /\ parsed = NoResult
    /\ pc = "Parsing" /\ strategy = "A" /\ completion = Malformed
    /\ request = NoRequest /\ response = NoText /\ result = NoResult
    /\ modelCalls = 0 /\ parseCalls = 0
    /\ cell = "GetKey" /\ keyPresent = TRUE /\ nbError = "-"
    /\ promptsBuilt = 0 /\ nbModelCalls = 0 /\ nbParses = 0
    /\ nbOutput = NoText
    /\ cpc = "chain_1" /\ inputs = NoInputs /\ in1 = NoInputs
    /\ in2 = NoInputs /\ output_1 = <<>> /\ output_2 = <<>>
    /\ runs1 = 0 /\ runs2 = 0 /\ raisedBy = "-" /\ cout = NotCalled
InitS ==
    /\ InitSave
    /\ IdleVoice
    /\ IdleIngest
    /\ called = "-" /\ arg = <<>> /\ field = <<>> /\ vout = NotCalled
    /\ output = Malformed /\ parser = NoParser /\ parsed = NoResult
    /\ pc = "Parsing" /\ strategy = "A" /\ completion = Malformed
    /\ request = NoRequest /\ response = NoText /\ result = NoResult
    /\ modelCalls = 0 /\ parseCalls = 0
    /\ cell = "GetKey" /\ keyPresent = TRUE /\ nbError = "-"
    /\ promptsBuilt = 0 /\ nbModelCalls = 0 /\ nbParses = 0
    /\ nbOutput = NoText
    /\ cpc = "chain_1" /\ inputs = NoInputs /\ in1 = NoInputs
    /\ in2 = NoInputs /\ output_1 = <<>> /\ output_2 = <<>>
    /\ runs1 = 0 /\ runs2 = 0 /\ raisedBy = "-" /\ cout = NotCalled

Next == NextPipe
Spec == InitP /\ [][Next]_vars
\* the call is one sequential piece of code: a step that can be taken is
\* taken, the model call included, which returns a response or raises
SpecLive == InitP /\ [][Next]_vars /\ WF_vars(Next)
SpecParse == InitD /\ [][NextParse]_vars
SpecValidators == InitV /\ [][NextValidators]_vars
SpecNotebook == InitN /\ [][NextNotebook]_vars
SpecChain == InitC /\ [][NextChain]_vars
SpecVoice == InitA /\ [][NextVoice]_vars
SpecIngest == InitI /\ [][NextIngest]_vars
SpecSave == InitS /\ [][NextSave]_vars

(***************************************************************************)
(* Properties of the repairing parsers (specification Spec).               *)
(***************************************************************************)
Terminal == pc \in {"Success", "Failed"}

AllowedTransitions ==
    { <<"Parsing", "Success">>, <<"Parsing", "NeedsRepair">>,
      <<"NeedsRepair", "Repairing">>,
      <<"Repairing", "Success">>, <<"Repairing", "Failed">> }

StepAllowed == <<pc, pc'>> \in AllowedTransitions

\* C1: a run starts in Parsing and takes only the transitions
\* Parsing->Success, Parsing->NeedsRepair, NeedsRepair->Repairing,
\* Repairing->Success and Repairing->Failed (so nothing leaves Success or
\* Failed), and Repairing is entered only after the one parse made so far
\* has failed.
C1_Transitions ==
    /\ pc = "Parsing"
    /\ [][StepAllowed]_vars
    /\ [](pc \in {"NeedsRepair", "Repairing"} =>
             parseCalls = 1 /\ result.tag = "Failure")

C1_Witness == pc = "Success" /\ modelCalls = 1 /\ parseCalls = 2

\* C2: one invocation of a repair strategy calls the model exactly once and,
\* when the model answers, runs the parser exactly once more, on that answer;
\* the outcome of that parse, Success or Failure, is what the caller gets,
\* and no state has more than one model call.
C2_SingleRepair ==
    /\ modelCalls <= 1
    /\ (Terminal /\ request # NoRequest) => modelCalls = 1
    /\ (Terminal /\ response # NoText) =>
          /\ parseCalls = 2
          /\ result = Parse(SuggestionsPlain, response)
          /\ pc = IF result.tag = "Success" THEN "Success" ELSE "Failed"

C2_Witness ==
    /\ pc = "Failed" /\ strategy = "B" /\ modelCalls = 1
    /\ response # NoText /\ result.tag = "Failure"

(***************************************************************************)
(* Properties of parser.parse (specification SpecParse).                   *)
(***************************************************************************)
Declared(schema) == {Fields(schema)[i] : i \in DOMAIN Fields(schema)}

StartsNumeric(w) == Len(w) > 0 /\ w[1] \in NumericChars
EndsWithDot(r) == Len(r) > 0 /\ r[Len(r)] = "."

\* the validator functions of a field accept v and leave it as it is
PassesValidators(schema, name, v) ==
    \A k \in DOMAIN Validators(schema, name) :
        LET o == CallValidator(Validators(schema, name)[k], v)
        IN o.kind = "return" /\ o.value = v

\* a validator function of a field rejects v with ValueError
RejectedByValidator(schema, name, v) ==
    \E k \in DOMAIN Validators(schema, name) :
        LET o == CallValidator(Validators(schema, name)[k], v)
        IN o.kind = "raise" /\ o.exc = "ValueError"

MatchesSchema(schema, text) ==
    /\ text.wf
    /\ \A f \in Declared(schema) : text.obj[f].t = "list"
    /\ schema = SuggestionsValidated =>
          \A i \in DOMAIN text.obj["words"].v :
              ~StartsNumeric(text.obj["words"].v[i])
    /\ schema = SuggestionsWords =>
          (Len(text.obj["words"].v) > 0 =>
              ~StartsNumeric(text.obj["words"].v[1]))

\* C4: for every raw text that is well-formed and matches the Schema (here
\* the two-field class with its validators), parse returns Success with
\* exactly the declared fields populated.
C4_MatchingTextSucceeds ==
    (parser = SuggestionsValidated /\ MatchesSchema(parser, output)) =>
        /\ parsed.tag = "Success"
        /\ DOMAIN parsed.value = Declared(parser)

\* the text fails a check of the class: not decodable, a declared field
\* missing or wrongly typed, or a list a validator rejects with ValueError
FailsSchema(schema, text) ==
    \/ ~text.wf
    \/ \E f \in Declared(schema) :
          \/ text.obj[f].t # "list"
          \/ RejectedByValidator(schema, f, text.obj[f].v)

\* an item of the result is the item of the text, or that item with a
\* period appended by the normalizing validator
FromText(schema, f, got, given) ==
    /\ Len(got) = Len(given)
    /\ \A i \in DOMAIN got :
          \/ got[i] = given[i]
          \/ /\ "end_with_dot" \in
                   {Validators(schema, f)[k] : k \in DOMAIN Validators(schema, f)}
             /\ got[i] = Append(given[i], ".")

\* C5: a parse that does not succeed hands the caller no field value at all,
\* every text with a missing, wrongly typed or rejected field is such a
\* parse, and the fields of a Success come item by item from the text.
C5_NoPartialValue ==
    parser # NoParser =>
        /\ parsed.tag # "Success" => DOMAIN parsed.value = {}
        /\ FailsSchema(parser, output) => parsed.tag # "Success"
        /\ parsed.tag = "Success" =>
              \A f \in Declared(parser) :
                  FromText(parser, f, parsed.value[f], output.obj[f].v)

C5_Witness ==
    /\ parser = SuggestionsPlain /\ parsed.tag = "Failure"
    /\ output.obj["words"].t = "list" /\ Len(output.obj["words"].v) = 2
    /\ output.obj["reasons"].t = "absent"
    /\ output.obj["reasoning"].t = "list"
    /\ DOMAIN parsed.value = {}

\* what the report of a parse says: the field and kind of each error
Report(r) == [i \in DOMAIN r.errors |->
                 [field |-> r.errors[i].field, kind |-> r.errors[i].kind]]

\* the kind of the earliest failing check when the checks are ordered
\* decoding, presence of every field, type of every field, constraints
EarliestKind(schema, text) ==
    IF ~text.wf THEN "MalformedSyntax"
    ELSE IF \E f \in Declared(schema) : text.obj[f].t = "absent"
        THEN "MissingField"
    ELSE IF \E f \in Declared(schema) : text.obj[f].t = "badtype"
        THEN "WrongType"
    ELSE IF \E f \in Declared(schema) :
                RejectedByValidator(schema, f, text.obj[f].v)
        THEN "ConstraintViolation"
    ELSE "none"

\* C6 as stated: the checks run in the order decoding, presence, type,
\* constraints over the whole text, and the failure a parse reports first
\* is of the kind of the earliest failing check (parses left by another
\* exception set aside).
C6_CheckMajorOrder ==
    (parser # NoParser /\ parsed.tag = "Failure") =>
        parsed.errors[1].kind = EarliestKind(parser, output)

\* the first check a field fails, the checks of one field being presence,
\* type, then its validator functions: "ok" when it fails none, "raise"
\* when a validator function leaves with an exception other than ValueError
FirstFailing(schema, f, obj) ==
    IF obj[f].t = "absent" THEN "MissingField"
    ELSE IF obj[f].t = "badtype" THEN "WrongType"
    ELSE IF Validators(schema, f) = <<>> THEN "ok"
    ELSE LET o == CallValidator(Validators(schema, f)[1], obj[f].v)
         IN IF o.kind = "return" THEN "ok"
            ELSE IF o.exc = "ValueError" THEN "ConstraintViolation"
            ELSE "raise"

FailingFields(schema, obj) ==
    SelectSeq(Fields(schema), LAMBDA f : FirstFailing(schema, f, obj) # "ok")

ExpectedReport(schema, obj) ==
    [i \in DOMAIN FailingFields(schema, obj) |->
        [field |-> FailingFields(schema, obj)[i],
         kind |-> FirstFailing(schema, FailingFields(schema, obj)[i], obj)]]

\* the first declared field, in declaration order, whose validator leaves
\* with another exception
RaisingField(schema, obj) ==
    \E i \in DOMAIN Fields(schema) :
        FirstFailing(schema, Fields(schema)[i], obj) = "raise"

\* C6 amended: decoding comes first and a decoding failure is reported
\* alone; otherwise the declared fields are checked one after the other in
\* declaration order, each for presence, then type, then its constraints,
\* and the report lists, in declaration order, the first failing check of
\* every failing field; a constraint function that leaves with an exception
\* other than ValueError ends the parse with that exception and no report.
C6_FieldMajorOrder ==
    parser # NoParser =>
        /\ ~output.wf =>
              /\ parsed.tag = "Failure"
              /\ Report(parsed) = <<[field |-> "-", kind |-> "MalformedSyntax"]>>
        /\ (output.wf /\ RaisingField(parser, output.obj)) =>
              parsed.tag = "Raised" /\ parsed.errors = <<>>
        /\ (output.wf /\ ~RaisingField(parser, output.obj)) =>
              /\ Report(parsed) = ExpectedReport(parser, output.obj)
              /\ parsed.tag = IF Report(parsed) = <<>> THEN "Success"
                              ELSE "Failure"

C6_Witness ==
    /\ parser = SuggestionsValidated /\ parsed.tag = "Failure"
    /\ Report(parsed) = <<[field |-> "words", kind |-> "ConstraintViolation"],
                          [field |-> "reasons", kind |-> "MissingField"]>>

\* C7: for every decodable raw text in which a declared field is absent,
\* parse returns a Failure with a MissingField error naming that field.
C7_MissingFieldReported ==
    (parser # NoParser /\ output.wf) =>
        \A f \in Declared(parser) :
            output.obj[f].t = "absent" =>
                /\ parsed.tag = "Failure"
                /\ \E i \in DOMAIN parsed.errors :
                      /\ parsed.errors[i].field = f
                      /\ parsed.errors[i].kind = "MissingField"

\* C8: with the two-field validated class, parse returns a Failure with a
\* ConstraintViolation on words for every words list in which at least one
\* item begins with a numeric character, whatever its position (stated for
\* the texts whose reasons are a list of non-empty strings).
C8_NumericItemRejected ==
    (/\ parser = SuggestionsValidated /\ output.wf
     /\ output.obj["reasons"].t = "list"
     /\ \A i \in DOMAIN output.obj["reasons"].v :
            Len(output.obj["reasons"].v[i]) > 0
     /\ output.obj["words"].t = "list"
     /\ \E i \in DOMAIN output.obj["words"].v :
            StartsNumeric(output.obj["words"].v[i])) =>
        /\ parsed.tag = "Failure"
        /\ \E i \in DOMAIN parsed.errors :
              /\ parsed.errors[i].field = "words"
              /\ parsed.errors[i].kind = "ConstraintViolation"

\* C9: with the one-field class, parse raises the validator's error for
\* every words list whose first word begins with a numeric character.
C9_FirstWordNumericRejected ==
    (/\ parser = SuggestionsWords /\ output.wf
     /\ output.obj["words"].t = "list"
     /\ Len(output.obj["words"].v) > 0
     /\ StartsNumeric(output.obj["words"].v[1])) =>
        /\ parsed.tag = "Failure"
        /\ \E i \in DOMAIN parsed.errors :
              /\ parsed.errors[i].field = "words"
              /\ parsed.errors[i].msg = MsgNumber

(***************************************************************************)
(* Properties of the validator functions (specification SpecValidators).   *)
(***************************************************************************)
\* C10: end_with_dot never fails: it returns a list of the same length and
\* order in which an item ending with a period is unchanged and every other
\* item, the empty string included, has exactly one "." appended.
C10_EndWithDotTotal ==
    called = "end_with_dot" =>
        /\ vout.kind = "return"
        /\ Len(vout.value) = Len(arg)
        /\ \A i \in DOMAIN arg :
              vout.value[i] = IF EndsWithDot(arg[i]) THEN arg[i]
                              ELSE Append(arg[i], ".")

\* a call of end_with_dot on the list a call of end_with_dot has returned
SecondEndWithDot ==
    /\ called = "end_with_dot" /\ vout.kind = "return"
    /\ called' = "end_with_dot"

\* C11: end_with_dot is idempotent: applied to a list it has returned, it
\* returns that same list and leaves the list object as it was (no second
\* period is appended).
C11_EndWithDotIdempotent ==
    [][SecondEndWithDot =>
          /\ arg' = vout.value
          /\ vout' = vout
          /\ field' = field]_vars

C11_Witness ==
    /\ called = "end_with_dot" /\ vout.kind = "return"
    /\ arg = vout.value /\ Len(arg) = MaxListLen
    /\ \A i \in DOMAIN arg : Len(arg[i]) = MaxStrLen + 1

\* the completion handed to the repairing parser parses at the first attempt
FirstParseSucceeds == Parse(SuggestionsPlain, completion).tag = "Success"

\* C13: the repair is invoked only on failure: when the first parse of the
\* completion succeeds, the call returns that Success, no repair request is
\* built and the model is never called (the number of model calls stays 0).
C13_NoRepairOnSuccess ==
    FirstParseSucceeds =>
        /\ modelCalls = 0
        /\ request = NoRequest
        /\ response = NoText
        /\ pc \in {"Parsing", "Success"}
        /\ pc = "Success" =>
              /\ result = Parse(SuggestionsPlain, completion)
              /\ parseCalls = 1

C13_Witness ==
    /\ FirstParseSucceeds
    /\ pc = "Success" /\ parseCalls = 1 /\ modelCalls = 0
    /\ Len(result.value.words) = MaxPipeListLen

\* the model call of the repair raises: the call is counted and no parse
\* follows it
ModelCallRaises ==
    /\ modelCalls' = modelCalls + 1
    /\ parseCalls' = parseCalls

ServiceErrorSurfaced == result = Raised("ServiceError")

\* a step taken after the model call's error has left the parser
AfterServiceError == ServiceErrorSurfaced /\ vars' # vars

\* C14: a ServiceError raised by the model call during repair is surfaced
\* immediately: the step in which the call raises ends the run with that
\* error as its result, the model is not called again, the parser is not
\* called a second time on a response, and the error is never replaced by a
\* Failure or a Success afterwards.
C14_ServiceErrorSurfaced ==
    [][/\ ModelCallRaises =>
            /\ result' = Raised("ServiceError")
            /\ pc' = "Failed"
            /\ modelCalls' = 1
            /\ response' = NoText
       /\ ~AfterServiceError]_vars

C14_Witness ==
    /\ ServiceErrorSurfaced
    /\ pc = "Failed" /\ modelCalls = 1 /\ parseCalls = 1
    /\ response = NoText /\ request.prompt

ParserErrorKinds ==
    {"MalformedSyntax", "MissingField", "WrongType", "ConstraintViolation"}

\* C15 as stated: a parser failure is the value that parse returns, no
\* exception leaves the call.
C15_FailureIsValue ==
    parsed.tag = "Failure" => parsed.exc = "-"

\* C15: a parser failure of one of the four kinds leaves parser.parse as a
\* thrown OutputParserException that carries the non-empty list of errors
\* and no value; the caller reaches it with try/except, as the repairing
\* parsers do.
C15_FailureIsException ==
    parsed.tag = "Failure" =>
        /\ parsed.exc = "OutputParserException"
        /\ parsed.value = NoValue
        /\ parsed.errors # <<>>
        /\ \A i \in DOMAIN parsed.errors :
              parsed.errors[i].kind \in ParserErrorKinds

C15_Witness ==
    /\ parser = SuggestionsValidated
    /\ parsed.tag = "Failure" /\ parsed.exc = "OutputParserException"
    /\ Len(parsed.errors) = 2
    /\ parsed.errors[1].kind = "ConstraintViolation"
    /\ parsed.errors[2].kind = "WrongType"

\* C17: every run of a repairing parser eventually reaches Success or Failed,
\* provided the model call returns a response or an error: no run stays in
\* Parsing, NeedsRepair or Repairing forever.
C17_Terminates == <>Terminal

C17_Witness ==
    /\ pc = "Failed" /\ result.tag = "Failure"
    /\ modelCalls = 1 /\ parseCalls = 2
    /\ response # NoText

\* the text {"words": ["a", "b"]}
TwoWords == Object(ListVal(<< <<"a">>, <<"b">> >>), Absent, Absent)

\* the report of the parse of TwoWords against the class with words and
\* reasons
ReasonsMissing(errs) ==
    /\ Len(errs) = 1
    /\ errs[1].field = "reasons" /\ errs[1].kind = "MissingField"

\* C18 as stated: strategy A on {"words": ["a", "b"]} ends with a Failure or
\* a Success, and a Success has at most as many reasons as words.
C18_ReasonsAtMostWords ==
    (strategy = "A" /\ completion = TwoWords /\ result.tag = "Success") =>
        Len(result.value["reasons"]) <= Len(result.value["words"])

\* C18: strategy A on {"words": ["a", "b"]}: the first parse fails with
\* reasons missing, the model is asked once with the completion and the
\* error but without the prompt, and the call ends with the model call's
\* error or with the parse of the model's response: a Success holds the
\* words and the reasons of that response, whatever their lengths.
C18_StrategyA ==
    (strategy = "A" /\ completion = TwoWords /\ pc # "Parsing") =>
        /\ pc = "NeedsRepair" <=> request = NoRequest
        /\ pc = "NeedsRepair" => ReasonsMissing(result.errors)
        /\ request # NoRequest =>
              /\ request.completion = completion
              /\ ReasonsMissing(request.error)
              /\ ~request.prompt
        /\ Terminal =>
              /\ modelCalls = 1
              /\ result.tag \in {"Success", "Failure", "Raised"}
              /\ result.tag = "Raised" =>
                    result.exc = "ServiceError" /\ response = NoText
              /\ result.tag = "Failure" => FailsSchema(SuggestionsPlain, response)
              /\ result.tag = "Success" =>
                    /\ response.wf
                    /\ \A f \in {"words", "reasons"} :
                          /\ response.obj[f].t = "list"
                          /\ result.value[f] = response.obj[f].v

\* the observed run: one reason for two words
C18_Witness ==
    /\ strategy = "A" /\ completion = TwoWords /\ pc = "Success"
    /\ Len(result.value["words"]) = 2
    /\ Len(result.value["reasons"]) = 1

C16_NoStageWithoutKey ==
    ~keyPresent =>
        /\ promptsBuilt = 0
        /\ nbModelCalls = 0
        /\ nbParses = 0
        /\ cell \in {"GetKey", "Construct", "Halted"}
        /\ cell = "Halted" => nbError = "ConfigurationError"

\* a run without the key, stopped by the configuration error
C16_Witness ==
    /\ ~keyPresent
    /\ cell = "Halted" /\ nbError = "ConfigurationError"
    /\ promptsBuilt = 0 /\ nbModelCalls = 0 /\ nbParses = 0

\* C20: ConcatenateChain._call runs chain_1 and then chain_2, each at most
\* once and each on the inputs as they were handed in; when both have
\* returned it returns the mapping with the one key concat_output whose
\* value is chain_1's output followed by chain_2's output; when chain_1
\* raises, chain_2 is not run and nothing is returned.
C20_ConcatenateChain ==
    /\ runs1 \in {0, 1} /\ runs2 \in {0, 1} /\ runs2 <= runs1
    /\ runs1 = 1 => in1 = inputs
    /\ runs2 = 1 => in2 = inputs /\ in2 = in1
    /\ cout.kind = "return" <=> cpc = "Done"
    /\ cpc = "Done" =>
          /\ runs1 = 1 /\ runs2 = 1 /\ raisedBy = "-"
          /\ DOMAIN cout.value = {"concat_output"}
          /\ Len(cout.value["concat_output"]) = Len(output_1) + Len(output_2)
          /\ SubSeq(cout.value["concat_output"], 1, Len(output_1)) = output_1
          /\ SubSeq(cout.value["concat_output"], Len(output_1) + 1,
                    Len(output_1) + Len(output_2)) = output_2
    /\ raisedBy = "chain_1" =>
          /\ runs2 = 0 /\ in2 = NoInputs
          /\ cpc = "Failed" /\ cout.kind = "raise"

C20_Witness ==
    /\ cpc = "Done" /\ inputs.word = <<"a">>
    /\ output_1 = <<"a", "b">> /\ output_2 = <<"b", "a">>
    /\ cout.value["concat_output"] = <<"a", "b", "b", "a">>

(***************************************************************************)
(* Properties of the voice assistant (specification SpecVoice).            *)
(***************************************************************************)
\* C21: a run of main() in which the user supplied no new text and no new
\* transcription leaves past and generated of st.session_state unchanged
\* and makes no search_db call.
C21_HistoryOnlyOnNewInput ==
    [][(vpc = "Search" /\ ~newInput) =>
          /\ past' = past
          /\ generated' = generated
          /\ searchCalls' = searchCalls]_vars

\* C22: after any sequence of runs of main(), the runs in which search_db
\* or a read of its result raises included, past and generated have the
\* same length, entry i of generated is the response to entry i of past,
\* and display_conversation never indexes past beyond its end.
C22_HistoryAligned ==
    /\ Len(past) = Len(generated)
    /\ \A i \in 2..Len(generated) :
          i <= Len(past) => generated[i].query = past[i]
    /\ vError # "IndexError"

\* C23: when the Whisper call raises, record_and_transcribe_audio still
\* returns, with None: the page shows "Error transcribing audio.",
\* audio_transcription.txt is not written, and get_user_input that follows
\* is given no transcription, so the field keeps its content or is empty
\* and nothing counts as new input.
C23_WhisperFailureContained ==
    [][/\ (vpc = "Record" /\ whisperRaised') =>
            /\ vpc' = "Input" /\ vError' = "-"
            /\ transcription' = None
            /\ notice' = "Error transcribing audio."
            /\ transcriptFile' = transcriptFile
       /\ (vpc = "Input" /\ whisperRaised) =>
            /\ transcription = None
            /\ userInput' \in {inputText, ""}
            /\ newInput' = newInput]_vars

\* a failed transcription after a successful one
C23_Witness ==
    /\ whisperRaised /\ vpc = "Search"
    /\ transcription = None /\ notice = "Error transcribing audio."
    /\ transcriptFile = "t" /\ ~newInput

\* C24: whenever record_and_transcribe_audio has returned after writing
\* temp_audio.wav, Transcribe clicked or not, the file has been removed.
C24_TempAudioRemoved ==
    (vpc = "Input" /\ audioBytes) => ~tempAudio

(***************************************************************************)
(* Properties of the ingestion main() (specification SpecIngest).          *)
(***************************************************************************)
\* C25: on every path by which main() ends after scrape_all_content has
\* written content.txt, a failure while creating the database or adding
\* the documents included, content.txt no longer exists.
C25_ContentFileRemoved ==
    (ipc \in {"Done", "Failed"} /\ iError # "scrape_all_content") =>
        ~contentFile

\* C26: load_docs never raises: main() always goes on from it to
\* split_docs with no error; when loading or splitting the file raised,
\* load_docs returns the empty list, nothing of what had been read, and
\* otherwise the loader's documents; after an error main() reaches the
\* database step with zero documents.
C26_LoadDocsNeverRaises ==
    [][/\ ipc = "Load" =>
            /\ ipc' = "Split" /\ iError' = "-"
            /\ docs' = IF loadRaised' THEN <<>> ELSE loaded'
       /\ (ipc = "Split" /\ loadRaised) =>
            /\ ipc' = "CreateDb" /\ iError' = "-"
            /\ texts' = <<>>]_vars

\* the loader had read documents when it raised, and main() has gone on to
\* add zero documents to the database
C26_Witness ==
    /\ loadRaised /\ Len(loaded) = MaxListLen
    /\ docs = <<>> /\ texts = <<>>
    /\ ipc = "Remove" /\ dbCreated /\ dbDocs = <<>> /\ iError = "-"

(***************************************************************************)
(* Properties of the transcription cell (specification SpecSave).          *)
(***************************************************************************)
\* C27: after the transcription loop text.txt contains the transcription
\* of every video in vides_details, and when the save step fails the
\* transcript that text.txt held before is still there.
C27_TranscriptsSaved ==
    (spc # "Transcribe" /\ sError # "transcribe") =>
        IF sError = "-" THEN textFile = results
        ELSE textFile = EarlierTranscript

====
